---- MODULE Spec2Model ----
(***************************************************************************)
(* Model of the MCP23017 driver in src/src/lib.rs.                         *)
(*                                                                         *)
(* The chip is a register file reached through a fallible byte-oriented    *)
(* bus (smbus_read_byte / smbus_write_byte).  Several MCP23017 values     *)
(* (handles) may be open on the one chip; each keeps its own two cached    *)
(* fields, direction and mirrored.  Every public method is one action that *)
(* runs the whole method, bus operation by bus operation, and records the  *)
(* bus traffic and the returned value of the call in `last`.  The one      *)
(* exception is clear_interrupts, which waits in thread::sleep: it is one  *)
(* action up to the sleep and one action after it, and the calls of the    *)
(* other handles take place in between.                                    *)
(***************************************************************************)
EXTENDS Integers, Sequences, FiniteSets, TLC

VARIABLES regs,       \* the chip's registers: address -> byte
          alive,      \* per handle: TRUE while the MCP23017 value exists
          direction,  \* per handle: MCP23017.direction (u16)
          mirrored,   \* per handle: MCP23017.mirrored (Feature)
          asleep,     \* per handle: where its clear_interrupts call sleeps,
                      \* None when the handle is not inside thread::sleep
          last,       \* the most recent step of a call: handle, name,
                      \* arguments, result, bus trace
          calls,      \* number of calls started so far
          set_mode    \* history, per handle and pin: the mode of the latest
                      \* successful pin_mode since the handle was built or reset

vars == <<regs, alive, direction, mirrored, asleep, last, calls, set_mode>>

----------------------------------------------------------------------------
(* Bounds *)

\* number of driver calls in one behaviour
MaxCalls == 3

\* the MCP23017 values opened on the one chip, each with its own cache
Handles == {1, 2}

\* the handles whose calls meet bus failures
FailingHandles == {1}

\* pin numbers the client passes to Pin::new
PinNumbers == {3, 10}

\* <<IODIRA, IODIRB>> contents found on the chip before the driver starts:
\* the power-on values, and values left by an earlier configuration
InitDir == {<<255, 255>>, <<243, 251>>}

\* <<enabled, compare_mode, defval>> arguments passed to config_pin_interrupt
ConfigArgs == {<<"On", "Default", <<"High">> >>, <<"On", "Previous", << >> >>,
               <<"Off", "Default", << >> >>, <<"Off", "Previous", <<"Low">> >>}

\* INTFA and INTFB contents presented by the chip
InitFlagA == {0, 132}
InitFlagB == {0, 4}

----------------------------------------------------------------------------
(* Register map, lib.rs:7-25 *)

IODIRA   == 0
IODIRB   == 1
GPINTENA == 4
GPINTENB == 5
DEFVALA  == 6
DEFVALB  == 7
INTCONA  == 8
INTCONB  == 9
IOCON    == 10
GPPUA    == 12
GPPUB    == 13
INTFA    == 14
INTFB    == 15
INTCAPA  == 16
INTCAPB  == 17
GPIOA    == 18
GPIOB    == 19
OLATA    == 20
OLATB    == 21

NUM_GPIO == 16

Registers == {IODIRA, IODIRB, GPINTENA, GPINTENB, DEFVALA, DEFVALB,
              INTCONA, INTCONB, IOCON, GPPUA, GPPUB, INTFA, INTFB,
              INTCAPA, INTCAPB, GPIOA, GPIOB, OLATA, OLATB}

----------------------------------------------------------------------------
(* Fixed-width integer arithmetic *)

\* 1 << n
Pow2(n) == 2 ^ n

\* bit k of x
Bit(x, k) == (x \div Pow2(k)) % 2

\* x & y, x | y on w-bit values
RECURSIVE BitAnd(_, _, _)
BitAnd(x, y, w) ==
    IF w = 0 \/ x = 0 \/ y = 0 THEN 0
    ELSE (x % 2) * (y % 2) + 2 * BitAnd(x \div 2, y \div 2, w - 1)

RECURSIVE BitOr(_, _, _)
BitOr(x, y, w) ==
    IF w = 0 THEN 0
    ELSE IF y = 0 THEN x % Pow2(w)
    ELSE (IF x % 2 = 1 \/ y % 2 = 1 THEN 1 ELSE 0)
         + 2 * BitOr(x \div 2, y \div 2, w - 1)

\* !x on a u8
BitNot8(x) == 255 - x

\* (x as f32).log2() as u8, for x in 1..255
RECURSIVE Log2(_)
Log2(x) == IF x <= 1 THEN 0 ELSE 1 + Log2(x \div 2)

\* Option<T>: the empty sequence is None, a one-element sequence is Some
None == << >>
Some(x) == << x >>

----------------------------------------------------------------------------
(* Two-variant enums and their bool conversions, lib.rs:56-217 *)

Mode_into(m)    == m = "Input"
Mode_from(s)    == IF s THEN "Input" ELSE "Output"
State_into(s)   == s = "High"
State_from(s)   == IF s THEN "High" ELSE "Low"
Feature_into(f) == f = "On"
Compare_into(c) == c = "Default"

Modes    == {"Input", "Output"}
States   == {"High", "Low"}
Features == {"On", "Off"}
Compares == {"Default", "Previous"}
Banks    == {"A", "B"}

----------------------------------------------------------------------------
(* Pin, lib.rs:235-283 *)

\* Pin::new with the bank boundary off by one
Pin_new_boundary(pin) ==
    IF pin >= NUM_GPIO THEN None
    ELSE IF pin <= 8
         THEN Some([pin |-> pin, orig |-> pin, shift |-> 0, bank |-> "A"])
         ELSE Some([pin |-> pin - 8, orig |-> pin, shift |-> 8, bank |-> "B"])

Pin_new(pin) ==
    IF pin >= NUM_GPIO THEN None
    ELSE IF pin < 8
         THEN Some([pin |-> pin, orig |-> pin, shift |-> 0, bank |-> "A"])
         ELSE Some([pin |-> pin - 8, orig |-> pin, shift |-> 8, bank |-> "B"])

\* Pin::mode
mode(self, dir) == Mode_from(BitAnd(dir, Pow2(self.orig), 16) = 0)

\* apply_u16 with the two halves exchanged
apply_u16_swapped(self, bitmap, value) ==
    LET hi == bitmap \div 256
        lo == bitmap % 256
    IN IF self.shift = 8 THEN hi * 256 + value
                         ELSE value * 256 + lo

\* Pin::apply_u16
apply_u16(self, bitmap, value) ==
    LET hi == bitmap \div 256
        lo == bitmap % 256
    IN IF self.shift # 8 THEN hi * 256 + value
                         ELSE value * 256 + lo

\* PartialEq for Pin
Pin_eq(self, other) == self.pin = other.pin /\ self.bank = other.bank

IOCONMIRROR == [pin |-> 6, orig |-> 6, shift |-> 0, bank |-> "A"]
IOCONINTPOL == [pin |-> 1, orig |-> 1, shift |-> 0, bank |-> "A"]

\* every pin Pin::new can build
AllPins == {Pin_new(n)[1] : n \in 0..(NUM_GPIO - 1)}

\* the pins the client holds
Pins == {Pin_new(n)[1] : n \in {m \in PinNumbers : Pin_new(m) # None}}

----------------------------------------------------------------------------
(* The bus: rppal's I2c as the driver uses it.                             *)
(* A bus value carries the chip registers, the operations issued so far in *)
(* the current call, and the set of operation numbers that fail.  A failed *)
(* read returns no byte; a failed write leaves the register as it was.     *)

NewBus(r, f) == [regs |-> r, trace |-> << >>, n |-> 0, fails |-> f]

\* I2c::smbus_read_byte
smbus_read_byte(b, register) ==
    LET k  == b.n + 1
        ok == k \notin b.fails
        v  == IF ok THEN b.regs[register] ELSE 0
    IN [bus |-> [b EXCEPT !.n = k,
                          !.trace = Append(@, [op |-> "read", reg |-> register,
                                               val |-> v, ok |-> ok])],
        ok  |-> ok,
        val |-> v]

\* I2c::smbus_write_byte
smbus_write_byte(b, register, value) ==
    LET k  == b.n + 1
        ok == k \notin b.fails
    IN [bus |-> [b EXCEPT !.n = k,
                          !.regs = IF ok THEN [@ EXCEPT ![register] = value] ELSE @,
                          !.trace = Append(@, [op |-> "write", reg |-> register,
                                               val |-> value, ok |-> ok])],
        ok  |-> ok]

\* thread::sleep, recorded in the trace but not a bus operation
sleep(b) == [b EXCEPT !.trace = Append(@, [op |-> "sleep", reg |-> 0,
                                           val |-> 500, ok |-> TRUE])]

\* Results
Ok(v)         == [kind |-> "Ok", val |-> v]
ErrI2C        == [kind |-> "I2C", val |-> 0]
ErrWrongMode(pin) == [kind |-> "WrongMode", val |-> pin]
ErrForcedClear == [kind |-> "InterruptsForcedClear", val |-> 0]

----------------------------------------------------------------------------
(* MCP23017, lib.rs:308-549.  Every operator takes the bus at the start of *)
(* the call and returns the bus at its end together with the result.       *)

\* MCP23017::change_bit
change_bit(bitmap, pin, value) ==
    IF value THEN BitOr(bitmap, Pow2(pin.pin), 8)
             ELSE BitAnd(bitmap, BitNot8(Pow2(pin.pin)), 8)

\* MCP23017::read_and_change_pin
read_and_change_pin(b, register, pin, value, cur_value) ==
    LET rd == IF cur_value = None
              THEN smbus_read_byte(b, register)
              ELSE [bus |-> b, ok |-> TRUE, val |-> cur_value[1]]
    IN IF ~rd.ok THEN [bus |-> rd.bus, res |-> ErrI2C]
       ELSE LET new_value == change_bit(rd.val, pin, value)
                wr == smbus_write_byte(rd.bus, register, new_value)
            IN IF ~wr.ok THEN [bus |-> wr.bus, res |-> ErrI2C]
               ELSE [bus |-> wr.bus, res |-> Ok(new_value)]

\* MCP23017::pull_up
pull_up(b, pin, value) ==
    LET r == IF pin.bank = "A"
             THEN read_and_change_pin(b, GPPUA, pin, State_into(value), None)
             ELSE read_and_change_pin(b, GPPUA, pin, State_into(value), None)
    IN IF r.res.kind # "Ok" THEN r
       ELSE [bus |-> r.bus, res |-> Ok((r.res.val * Pow2(pin.shift)) % 65536)]

\* pin_mode leaving the cached direction word as it was
pin_mode_uncached(b, dir, pin, m) ==
    LET r == IF pin.bank = "A"
             THEN read_and_change_pin(b, IODIRA, pin, Mode_into(m), None)
             ELSE read_and_change_pin(b, IODIRB, pin, Mode_into(m), None)
    IN IF r.res.kind # "Ok" THEN [bus |-> r.bus, direction |-> dir, res |-> r.res]
       ELSE [bus |-> r.bus, direction |-> dir, res |-> Ok(dir)]

\* MCP23017::pin_mode
pin_mode(b, dir, pin, m) ==
    LET r == IF pin.bank = "A"
             THEN read_and_change_pin(b, IODIRA, pin, Mode_into(m), None)
             ELSE read_and_change_pin(b, IODIRB, pin, Mode_into(m), None)
    IN IF r.res.kind # "Ok" THEN [bus |-> r.bus, direction |-> dir, res |-> r.res]
       ELSE LET d == apply_u16(pin, dir, r.res.val)
            IN [bus |-> r.bus, direction |-> d, res |-> Ok(d)]

\* output returning the failure of the OLAT read
output_olat_required(b, dir, pin, value) ==
    IF mode(pin, dir) = "Output" THEN [bus |-> b, res |-> ErrWrongMode(pin)]
    ELSE LET olat == smbus_read_byte(b, IF pin.bank = "A" THEN OLATA ELSE OLATB)
         IN IF ~olat.ok THEN [bus |-> olat.bus, res |-> ErrI2C]
            ELSE read_and_change_pin(olat.bus, IF pin.bank = "A" THEN GPIOA ELSE GPIOB,
                                     pin, State_into(value), Some(olat.val))

\* output rejecting the pins that are not in Output mode
output_guard_inverted(b, dir, pin, value) ==
    IF mode(pin, dir) # "Output" THEN [bus |-> b, res |-> ErrWrongMode(pin)]
    ELSE LET olat == smbus_read_byte(b, IF pin.bank = "A" THEN OLATA ELSE OLATB)
             cur  == IF olat.ok THEN Some(olat.val) ELSE None
         IN read_and_change_pin(olat.bus, IF pin.bank = "A" THEN GPIOA ELSE GPIOB,
                                pin, State_into(value), cur)

\* MCP23017::output
output(b, dir, pin, value) ==
    IF mode(pin, dir) = "Output" THEN [bus |-> b, res |-> ErrWrongMode(pin)]
    ELSE LET olat == smbus_read_byte(b, IF pin.bank = "A" THEN OLATA ELSE OLATB)
             cur  == IF olat.ok THEN Some(olat.val) ELSE None
         IN read_and_change_pin(olat.bus, IF pin.bank = "A" THEN GPIOA ELSE GPIOB,
                                pin, State_into(value), cur)

\* MCP23017::input
input(b, dir, pin) ==
    IF mode(pin, dir) = "Input" THEN [bus |-> b, res |-> ErrWrongMode(pin)]
    ELSE LET rd == smbus_read_byte(b, IF pin.bank = "A" THEN GPIOA ELSE GPIOB)
         IN IF ~rd.ok THEN [bus |-> rd.bus, res |-> ErrI2C]
            ELSE [bus |-> rd.bus,
                  res |-> Ok(State_from(BitAnd(rd.val, Pow2(pin.pin), 8) # 0))]

\* MCP23017::current_val
current_val(b, pin) ==
    LET rd == smbus_read_byte(b, IF pin.bank = "A" THEN GPIOA ELSE GPIOB)
    IN IF ~rd.ok THEN [bus |-> rd.bus, res |-> ErrI2C]
       ELSE [bus |-> rd.bus,
             res |-> Ok(State_from(BitAnd(rd.val, Pow2(pin.pin), 8) # 0))]

\* config_system_interrupt caching the mirror flag before the write
config_system_interrupt_caching_early(b, mir, mirror, intpol) ==
    LET rd == smbus_read_byte(b, IOCON)
    IN IF ~rd.ok THEN [bus |-> rd.bus, mirrored |-> mir, res |-> ErrI2C]
       ELSE LET v1 == change_bit(rd.val, IOCONMIRROR, Feature_into(mirror))
                v2 == change_bit(v1, IOCONINTPOL, State_into(intpol))
                wr == smbus_write_byte(rd.bus, IOCON, v2)
            IN IF ~wr.ok THEN [bus |-> wr.bus, mirrored |-> mirror, res |-> ErrI2C]
               ELSE [bus |-> wr.bus, mirrored |-> mirror, res |-> Ok(0)]

\* MCP23017::config_system_interrupt
config_system_interrupt(b, mir, mirror, intpol) ==
    LET rd == smbus_read_byte(b, IOCON)
    IN IF ~rd.ok THEN [bus |-> rd.bus, mirrored |-> mir, res |-> ErrI2C]
       ELSE LET v1 == change_bit(rd.val, IOCONMIRROR, Feature_into(mirror))
                v2 == change_bit(v1, IOCONINTPOL, State_into(intpol))
                wr == smbus_write_byte(rd.bus, IOCON, v2)
            IN IF ~wr.ok THEN [bus |-> wr.bus, mirrored |-> mir, res |-> ErrI2C]
               ELSE [bus |-> wr.bus, mirrored |-> mirror, res |-> Ok(0)]

\* Option<State>::unwrap_or(State::Low)
unwrap_or_Low(defval) == IF defval = None THEN "Low" ELSE defval[1]

\* config_pin_interrupt writing DEFVAL before INTCON
config_pin_interrupt_defval_first(b, dir, pin, enabled, compare_mode, defval) ==
    IF mode(pin, dir) = "Input" THEN [bus |-> b, res |-> ErrWrongMode(pin)]
    ELSE LET A  == pin.bank = "A"
             r1 == read_and_change_pin(b, IF A THEN GPINTENA ELSE GPINTENB,
                                       pin, Feature_into(enabled), None)
         IN IF r1.res.kind # "Ok" THEN r1
            ELSE LET r2 == read_and_change_pin(
                               r1.bus, IF A THEN DEFVALA ELSE DEFVALB, pin,
                               State_into(unwrap_or_Low(defval)), None)
                 IN IF r2.res.kind # "Ok" THEN r2
                    ELSE LET r3 == read_and_change_pin(
                                       r2.bus, IF A THEN INTCONA ELSE INTCONB,
                                       pin, Compare_into(compare_mode), None)
                         IN IF r3.res.kind # "Ok" THEN r3
                            ELSE [bus |-> r3.bus, res |-> Ok(0)]

\* config_pin_interrupt rejecting the pins that are not in Input mode
config_pin_interrupt_guard_inverted(b, dir, pin, enabled, compare_mode, defval) ==
    IF mode(pin, dir) # "Input" THEN [bus |-> b, res |-> ErrWrongMode(pin)]
    ELSE LET A  == pin.bank = "A"
             r1 == read_and_change_pin(b, IF A THEN GPINTENA ELSE GPINTENB,
                                       pin, Feature_into(enabled), None)
         IN IF r1.res.kind # "Ok" THEN r1
            ELSE LET r2 == read_and_change_pin(r1.bus, IF A THEN INTCONA ELSE INTCONB,
                                               pin, Compare_into(compare_mode), None)
                 IN IF r2.res.kind # "Ok" THEN r2
                    ELSE LET r3 == read_and_change_pin(
                                       r2.bus, IF A THEN DEFVALA ELSE DEFVALB, pin,
                                       State_into(unwrap_or_Low(defval)), None)
                         IN IF r3.res.kind # "Ok" THEN r3
                            ELSE [bus |-> r3.bus, res |-> Ok(0)]

\* MCP23017::config_pin_interrupt
config_pin_interrupt(b, dir, pin, enabled, compare_mode, defval) ==
    IF mode(pin, dir) = "Input" THEN [bus |-> b, res |-> ErrWrongMode(pin)]
    ELSE LET A  == pin.bank = "A"
             r1 == read_and_change_pin(b, IF A THEN GPINTENA ELSE GPINTENB,
                                       pin, Feature_into(enabled), None)
         IN IF r1.res.kind # "Ok" THEN r1
            ELSE LET r2 == read_and_change_pin(r1.bus, IF A THEN INTCONA ELSE INTCONB,
                                               pin, Compare_into(compare_mode), None)
                 IN IF r2.res.kind # "Ok" THEN r2
                    ELSE LET r3 == read_and_change_pin(
                                       r2.bus, IF A THEN DEFVALA ELSE DEFVALB, pin,
                                       State_into(unwrap_or_Low(defval)), None)
                         IN IF r3.res.kind # "Ok" THEN r3
                            ELSE [bus |-> r3.bus, res |-> Ok(0)]

\* MCP23017::read_interrupt_register
read_interrupt_register(b, port) ==
    LET f == smbus_read_byte(b, IF port = "A" THEN INTFA ELSE INTFB)
    IN IF ~f.ok THEN [bus |-> f.bus, res |-> ErrI2C]
       ELSE IF f.val # 0
            THEN LET pin == Pin_new(Log2(f.val))
                     c   == smbus_read_byte(f.bus, IF port = "A" THEN INTCAPA ELSE INTCAPB)
                 IN IF ~c.ok THEN [bus |-> c.bus, res |-> ErrI2C]
                    ELSE [bus |-> c.bus,
                          res |-> Ok(IF pin = None THEN None
                                     ELSE Some(<<pin[1],
                                                 State_from(BitAnd(c.val, Pow2(pin[1].pin), 8) # 0)>>))]
            ELSE [bus |-> f.bus, res |-> Ok(None)]

\* read_interrupt returning the bus failures of the bank B check
read_interrupt_propagating(b, mir, port) ==
    IF mir = "On"
    THEN LET a == read_interrupt_register(b, "A")
         IN IF a.res.kind # "Ok" THEN a
            ELSE IF a.res.val # None THEN a
                 ELSE read_interrupt_register(a.bus, "B")
    ELSE read_interrupt_register(b, port)

\* MCP23017::read_interrupt
read_interrupt(b, mir, port) ==
    IF mir = "On"
    THEN LET a == read_interrupt_register(b, "A")
         IN IF a.res.kind # "Ok" THEN a
            ELSE IF a.res.val # None THEN a
                 ELSE LET bb == read_interrupt_register(a.bus, "B")
                      IN [bus |-> bb.bus,
                          res |-> Ok(IF bb.res.kind = "Ok" THEN bb.res.val ELSE None)]
    ELSE read_interrupt_register(b, port)

\* the array literal [0..3] of lib.rs:504: one element, the range 0..3
RetryArray == << [start |-> 0, end |-> 3] >>

\* the call is inside thread::sleep; i is the element the loop takes next
Pending(i) == [kind |-> "Pending", val |-> i]

\* the forced reset of clear_interrupts (lib.rs:514-516)
force_reset(b) ==
    LET ga == smbus_read_byte(b, GPIOA)
    IN IF ~ga.ok THEN [bus |-> ga.bus, res |-> ErrI2C]
       ELSE LET gb == smbus_read_byte(ga.bus, GPIOB)
            IN IF ~gb.ok THEN [bus |-> gb.bus, res |-> ErrI2C]
               ELSE [bus |-> gb.bus, res |-> ErrForcedClear]

\* clear_interrupts from element i of the `for _ in [0..3]` loop up to its
\* return or to the thread::sleep of lib.rs:509, whichever comes first
retry_loop(b, i) ==
    IF i > Len(RetryArray) THEN force_reset(b)
    ELSE LET fa == smbus_read_byte(b, INTFA)
         IN IF ~fa.ok THEN [bus |-> fa.bus, res |-> ErrI2C]
            ELSE IF fa.val = 0 THEN [bus |-> fa.bus, res |-> Ok(0)]
            ELSE LET fb == smbus_read_byte(fa.bus, INTFB)
                 IN IF ~fb.ok THEN [bus |-> fb.bus, res |-> ErrI2C]
                    ELSE IF fb.val = 0 THEN [bus |-> fb.bus, res |-> Ok(0)]
                    ELSE [bus |-> sleep(fb.bus), res |-> Pending(i + 1)]

\* MCP23017::clear_interrupts from its entry up to its return or to its
\* first thread::sleep
clear_interrupts_enter(b) ==
    LET fa == smbus_read_byte(b, INTFA)
    IN IF ~fa.ok THEN [bus |-> fa.bus, res |-> ErrI2C]
       ELSE LET fb == IF fa.val > 0 THEN [bus |-> fa.bus, ok |-> TRUE, val |-> 0]
                      ELSE smbus_read_byte(fa.bus, INTFB)
            IN IF ~fb.ok THEN [bus |-> fb.bus, res |-> ErrI2C]
               ELSE IF fa.val > 0 \/ fb.val > 0
                    THEN retry_loop(fb.bus, 1)
                    ELSE [bus |-> fb.bus, res |-> Ok(0)]

\* the rest of a clear_interrupts call that nothing interrupts
RECURSIVE clear_interrupts_run(_)
clear_interrupts_run(r) ==
    IF r.res.kind # "Pending" THEN r
    ELSE clear_interrupts_run(retry_loop(r.bus, r.res.val))

\* MCP23017::clear_interrupts on a chip that nothing else touches while the
\* call sleeps
clear_interrupts(b) == clear_interrupts_run(clear_interrupts_enter(b))

\* the writes of reset with the GPIO writes moved in front of the IODIR writes
ResetWrites_gpio_first == << <<GPIOA, 0>>, <<GPIOB, 0>>,
                             <<IODIRA, 255>>, <<IODIRB, 255>>,
                             <<GPPUA, 0>>, <<GPPUB, 0>>,
                             <<IOCON, 0>>,
                             <<GPINTENA, 0>>, <<GPINTENB, 0>>,
                             <<INTCONA, 0>>, <<INTCONB, 0>>,
                             <<DEFVALA, 0>>, <<DEFVALB, 0>> >>

\* the register writes of reset, in program order (lib.rs:524-543)
ResetWrites == << <<IODIRA, 255>>, <<IODIRB, 255>>,
                  <<GPIOA, 0>>, <<GPIOB, 0>>,
                  <<GPPUA, 0>>, <<GPPUB, 0>>,
                  <<IOCON, 0>>,
                  <<GPINTENA, 0>>, <<GPINTENB, 0>>,
                  <<INTCONA, 0>>, <<INTCONB, 0>>,
                  <<DEFVALA, 0>>, <<DEFVALB, 0>> >>

\* the register reads that end reset (lib.rs:545-546)
ResetReads == <<GPIOA, GPIOB>>

\* reset_writes going on to the next write after a failed one
RECURSIVE reset_writes_continuing(_, _)
reset_writes_continuing(b, i) ==
    IF i > Len(ResetWrites) THEN [bus |-> b, ok |-> TRUE]
    ELSE LET wr == smbus_write_byte(b, ResetWrites[i][1], ResetWrites[i][2])
         IN reset_writes_continuing(wr.bus, i + 1)

RECURSIVE reset_writes(_, _)
reset_writes(b, i) ==
    IF i > Len(ResetWrites) THEN [bus |-> b, ok |-> TRUE]
    ELSE LET wr == smbus_write_byte(b, ResetWrites[i][1], ResetWrites[i][2])
         IN IF ~wr.ok THEN [bus |-> wr.bus, ok |-> FALSE]
            ELSE reset_writes(wr.bus, i + 1)

RECURSIVE reset_reads(_, _)
reset_reads(b, i) ==
    IF i > Len(ResetReads) THEN [bus |-> b, ok |-> TRUE]
    ELSE LET rd == smbus_read_byte(b, ResetReads[i])
         IN IF ~rd.ok THEN [bus |-> rd.bus, ok |-> FALSE]
            ELSE reset_reads(rd.bus, i + 1)

\* MCP23017::reset
reset(b) ==
    LET w == reset_writes(b, 1)
    IN IF ~w.ok THEN [bus |-> w.bus, res |-> ErrI2C]
       ELSE LET r == reset_reads(w.bus, 1)
            IN IF ~r.ok THEN [bus |-> r.bus, res |-> ErrI2C]
               ELSE [bus |-> r.bus, res |-> Ok(0)]

\* MCP23017::new.  open is "ok", or names the setup call that fails:
\* I2c::with_bus or I2c::set_slave_address.
new(b, open) ==
    IF open # "ok"
    THEN [bus |-> b, built |-> FALSE, direction |-> 0, mirrored |-> "Off", res |-> ErrI2C]
    ELSE LET a == smbus_read_byte(b, IODIRA)
         IN IF ~a.ok
            THEN [bus |-> a.bus, built |-> FALSE, direction |-> 0,
                  mirrored |-> "Off", res |-> ErrI2C]
            ELSE LET bb == smbus_read_byte(a.bus, IODIRB)
                 IN IF ~bb.ok
                    THEN [bus |-> bb.bus, built |-> FALSE, direction |-> 0,
                          mirrored |-> "Off", res |-> ErrI2C]
                    ELSE LET d == BitOr(a.val, (bb.val * 256) % 65536, 16)
                             r == reset(bb.bus)
                         IN [bus |-> r.bus, built |-> r.res.kind = "Ok",
                             direction |-> d, mirrored |-> "Off", res |-> r.res]

----------------------------------------------------------------------------
(* Failure choices.  A method that returns at its first failed bus         *)
(* operation behaves the same for every failure set with the same least    *)
(* element, so one failing operation number (or none) covers all of them.  *)
(* output and read_interrupt go on after a failed operation, so they get   *)
(* every subset of their operation numbers.                                *)

FirstFailure(n) == {{}} \cup {{k} : k \in 1..n}
AnyFailures(n)  == SUBSET (1..n)

\* the failure choices F offered to a call of handle h
FailuresOf(h, F) == IF h \in FailingHandles THEN F ELSE {{}}

\* only an operation that is issued can fail
Reached(f, r) == \A k \in f : k <= r.bus.n

OpenOutcomes == {"ok", "with_bus", "set_slave_address"}

\* the record kept of a step of a call made on handle h
Call(h, op, pin, args, r) ==
    [h |-> h, op |-> op, pin |-> pin, args |-> args,
     res |-> r.res.kind, val |-> r.res.val, trace |-> r.bus.trace]

NoCall == [h |-> 1, op |-> "none", pin |-> None, args |-> << >>,
           res |-> "Ok", val |-> 0, trace |-> << >>]

\* no pin_mode call is remembered
NoModes == [p \in 0..(NUM_GPIO - 1) |-> "Unset"]

\* the history of pin_mode calls after the step recorded in c
Track(c) ==
    set_mode' = IF c.op \in {"new", "reset"}
                THEN [set_mode EXCEPT ![c.h] = NoModes]
                ELSE IF c.op = "pin_mode" /\ c.res = "Ok"
                     THEN [set_mode EXCEPT ![c.h][c.pin[1].orig] = c.args[1]]
                     ELSE set_mode

\* handle h exists and its thread is not inside a call
Idle(h) == alive[h] /\ asleep[h] = None

----------------------------------------------------------------------------
(* State machine.  A call is one step, except clear_interrupts: it waits   *)
(* in thread::sleep (lib.rs:509), and while it waits the calls made on     *)
(* another handle of the same chip take place.                             *)

PowerOn == [r \in Registers |-> IF r \in {IODIRA, IODIRB} THEN 255 ELSE 0]

Init ==
    /\ \E d \in InitDir, fa \in InitFlagA, fb \in InitFlagB :
          regs = [PowerOn EXCEPT ![IODIRA] = d[1], ![IODIRB] = d[2],
                                 ![INTFA] = fa, ![INTFB] = fb,
                                 ![INTCAPA] = fa, ![INTCAPB] = 0,
                                 ![OLATA] = 129, ![OLATB] = 129]
    /\ alive = [h \in Handles |-> FALSE]
    /\ direction = [h \in Handles |-> 0]
    /\ mirrored = [h \in Handles |-> "Off"]
    /\ asleep = [h \in Handles |-> None]
    /\ last = NoCall
    /\ calls = 0
    /\ set_mode = [h \in Handles |-> NoModes]

\* MCP23017::new; the handles are taken in order
Construct(h) ==
    /\ ~alive[h] /\ calls < MaxCalls
    /\ \A k \in Handles : k < h => alive[k]
    /\ \E open \in (IF h \in FailingHandles THEN OpenOutcomes ELSE {"ok"}),
          f \in FailuresOf(h, FirstFailure(2 + Len(ResetWrites) + Len(ResetReads))) :
          LET r == new(NewBus(regs, f), open)
          IN /\ Reached(f, r)
             /\ regs' = r.bus.regs
             /\ alive' = [alive EXCEPT ![h] = r.built]
             /\ direction' = IF r.built THEN [direction EXCEPT ![h] = r.direction]
                             ELSE direction
             /\ mirrored' = IF r.built THEN [mirrored EXCEPT ![h] = r.mirrored]
                            ELSE mirrored
             /\ last' = Call(h, "new", None, <<open>>, r)
    /\ calls' = calls + 1
    /\ Track(last')
    /\ UNCHANGED asleep

PullUp(h) ==
    /\ Idle(h) /\ calls < MaxCalls
    /\ \E pin \in Pins, value \in States, f \in FailuresOf(h, FirstFailure(2)) :
          LET r == pull_up(NewBus(regs, f), pin, value)
          IN /\ Reached(f, r)
             /\ regs' = r.bus.regs
             /\ last' = Call(h, "pull_up", Some(pin), <<value>>, r)
    /\ calls' = calls + 1
    /\ Track(last')
    /\ UNCHANGED <<alive, direction, mirrored, asleep>>

\* pin_mode called with a pin of the set P
PinModeOf(h, P) ==
    /\ Idle(h) /\ calls < MaxCalls
    /\ \E pin \in P, m \in Modes, f \in FailuresOf(h, FirstFailure(2)) :
          LET r == pin_mode(NewBus(regs, f), direction[h], pin, m)
          IN /\ Reached(f, r)
             /\ regs' = r.bus.regs
             /\ direction' = [direction EXCEPT ![h] = r.direction]
             /\ last' = Call(h, "pin_mode", Some(pin), <<m>>, r)
    /\ calls' = calls + 1
    /\ Track(last')
    /\ UNCHANGED <<alive, mirrored, asleep>>

PinMode(h) == PinModeOf(h, Pins)

Output(h) ==
    /\ Idle(h) /\ calls < MaxCalls
    /\ \E pin \in Pins, value \in States, f \in FailuresOf(h, AnyFailures(3)) :
          LET r == output(NewBus(regs, f), direction[h], pin, value)
          IN /\ Reached(f, r)
             /\ regs' = r.bus.regs
             /\ last' = Call(h, "output", Some(pin), <<value>>, r)
    /\ calls' = calls + 1
    /\ Track(last')
    /\ UNCHANGED <<alive, direction, mirrored, asleep>>

Input(h) ==
    /\ Idle(h) /\ calls < MaxCalls
    /\ \E pin \in Pins, f \in FailuresOf(h, FirstFailure(1)) :
          LET r == input(NewBus(regs, f), direction[h], pin)
          IN /\ Reached(f, r)
             /\ regs' = r.bus.regs
             /\ last' = Call(h, "input", Some(pin), << >>, r)
    /\ calls' = calls + 1
    /\ Track(last')
    /\ UNCHANGED <<alive, direction, mirrored, asleep>>

CurrentVal(h) ==
    /\ Idle(h) /\ calls < MaxCalls
    /\ \E pin \in Pins, f \in FailuresOf(h, FirstFailure(1)) :
          LET r == current_val(NewBus(regs, f), pin)
          IN /\ Reached(f, r)
             /\ regs' = r.bus.regs
             /\ last' = Call(h, "current_val", Some(pin), << >>, r)
    /\ calls' = calls + 1
    /\ Track(last')
    /\ UNCHANGED <<alive, direction, mirrored, asleep>>

ConfigSystemInterrupt(h) ==
    /\ Idle(h) /\ calls < MaxCalls
    /\ \E mirror \in Features, intpol \in States, f \in FailuresOf(h, FirstFailure(2)) :
          LET r == config_system_interrupt(NewBus(regs, f), mirrored[h], mirror, intpol)
          IN /\ Reached(f, r)
             /\ regs' = r.bus.regs
             /\ mirrored' = [mirrored EXCEPT ![h] = r.mirrored]
             /\ last' = Call(h, "config_system_interrupt", None, <<mirror, intpol>>, r)
    /\ calls' = calls + 1
    /\ Track(last')
    /\ UNCHANGED <<alive, direction, asleep>>

ConfigPinInterrupt(h) ==
    /\ Idle(h) /\ calls < MaxCalls
    /\ \E pin \in Pins, a \in ConfigArgs, f \in FailuresOf(h, FirstFailure(6)) :
          LET r == config_pin_interrupt(NewBus(regs, f), direction[h], pin,
                                        a[1], a[2], a[3])
          IN /\ Reached(f, r)
             /\ regs' = r.bus.regs
             /\ last' = Call(h, "config_pin_interrupt", Some(pin), a, r)
    /\ calls' = calls + 1
    /\ Track(last')
    /\ UNCHANGED <<alive, direction, mirrored, asleep>>

\* read_interrupt takes self by value: the handle is gone when it returns
ReadInterrupt(h) ==
    /\ Idle(h) /\ calls < MaxCalls
    /\ \E port \in Banks, f \in FailuresOf(h, AnyFailures(4)) :
          LET r == read_interrupt(NewBus(regs, f), mirrored[h], port)
          IN /\ Reached(f, r)
             /\ regs' = r.bus.regs
             /\ last' = Call(h, "read_interrupt", None, <<port>>, r)
    /\ alive' = [alive EXCEPT ![h] = FALSE]
    /\ calls' = calls + 1
    /\ Track(last')
    /\ UNCHANGED <<direction, mirrored, asleep>>

\* the bus operations of a clear_interrupts call between two of its waits
ClearSegment == 4

\* clear_interrupts from its entry: it returns, or it enters thread::sleep
\* and the step ends with the result Pending
ClearInterrupts(h) ==
    /\ Idle(h) /\ calls < MaxCalls
    /\ \E f \in FailuresOf(h, FirstFailure(ClearSegment)) :
          LET r == clear_interrupts_enter(NewBus(regs, f))
          IN /\ Reached(f, r)
             /\ regs' = r.bus.regs
             /\ asleep' = [asleep EXCEPT ![h] =
                              IF r.res.kind = "Pending"
                              THEN Some([trace |-> r.bus.trace, n |-> r.bus.n,
                                         next |-> r.res.val])
                              ELSE None]
             /\ last' = Call(h, "clear_interrupts", None, << >>, r)
    /\ calls' = calls + 1
    /\ Track(last')
    /\ UNCHANGED <<alive, direction, mirrored>>

\* clear_interrupts when its thread::sleep is over: the call goes on with
\* the registers as they are now, up to its return or its next sleep
ClearInterruptsWake(h) ==
    /\ alive[h] /\ asleep[h] # None
    /\ \E f \in FailuresOf(h, FirstFailure(ClearSegment)) :
          LET s  == asleep[h][1]
              ff == {s.n + k : k \in f}
              r  == retry_loop([regs |-> regs, trace |-> s.trace,
                                n |-> s.n, fails |-> ff], s.next)
          IN /\ Reached(ff, r)
             /\ regs' = r.bus.regs
             /\ asleep' = [asleep EXCEPT ![h] =
                              IF r.res.kind = "Pending"
                              THEN Some([trace |-> r.bus.trace, n |-> r.bus.n,
                                         next |-> r.res.val])
                              ELSE None]
             /\ last' = Call(h, "clear_interrupts", None, << >>, r)
    /\ Track(last')
    /\ UNCHANGED <<alive, direction, mirrored, calls>>

Reset(h) ==
    /\ Idle(h) /\ calls < MaxCalls
    /\ \E f \in FailuresOf(h, FirstFailure(Len(ResetWrites) + Len(ResetReads))) :
          LET r == reset(NewBus(regs, f))
          IN /\ Reached(f, r)
             /\ regs' = r.bus.regs
             /\ last' = Call(h, "reset", None, << >>, r)
    /\ calls' = calls + 1
    /\ Track(last')
    /\ UNCHANGED <<alive, direction, mirrored, asleep>>

\* the client builds a pin from any u8
PinNew ==
    /\ calls < MaxCalls
    /\ \E n \in 0..255 :
          last' = [h |-> 1, op |-> "Pin_new", pin |-> Pin_new(n), args |-> <<n>>,
                   res |-> "Ok", val |-> 0, trace |-> << >>]
    /\ calls' = calls + 1
    /\ Track(last')
    /\ UNCHANGED <<regs, alive, direction, mirrored, asleep>>

Next ==
    \/ \E h \in Handles : Construct(h)
    \/ \E h \in Handles : PullUp(h)
    \/ \E h \in Handles : PinMode(h)
    \/ \E h \in Handles : Output(h)
    \/ \E h \in Handles : Input(h)
    \/ \E h \in Handles : CurrentVal(h)
    \/ \E h \in Handles : ConfigSystemInterrupt(h)
    \/ \E h \in Handles : ConfigPinInterrupt(h)
    \/ \E h \in Handles : ReadInterrupt(h)
    \/ \E h \in Handles : ClearInterrupts(h)
    \/ \E h \in Handles : ClearInterruptsWake(h)
    \/ \E h \in Handles : Reset(h)

Spec == Init /\ [][Next]_vars

TypeOK ==
    /\ regs \in [Registers -> 0..255]
    /\ alive \in [Handles -> BOOLEAN]
    /\ direction \in [Handles -> 0..65535]
    /\ mirrored \in [Handles -> Features]
    /\ \A h \in Handles : asleep[h] # None => alive[h] /\ asleep[h][1].next \in 1..(Len(RetryArray) + 1)
    /\ last.h \in Handles
    /\ calls \in 0..MaxCalls
    /\ \A h \in Handles : set_mode[h] \in [0..(NUM_GPIO - 1) -> {"Unset"} \cup Modes]

----------------------------------------------------------------------------
(* Runs of a single handle made only of successful new, pin_mode and reset *)
(* calls                                                                   *)

NextDirection ==
    \/ Construct(1) /\ last'.res = "Ok"
    \/ PinMode(1) /\ last'.res = "Ok"
    \/ Reset(1) /\ last'.res = "Ok"

SpecDirection == Init /\ [][NextDirection]_vars

----------------------------------------------------------------------------
(* Runs on a chip fresh from power-on in which the client of a single      *)
(* handle sets the mode of any of the sixteen pins                         *)

InitPowerOn ==
    /\ Init
    /\ regs[IODIRA] = 255 /\ regs[IODIRB] = 255
    /\ regs[INTFA] = 0 /\ regs[INTFB] = 0

PinModeAnyPin == PinModeOf(1, AllPins)

NextAllPins ==
    \/ Construct(1)
    \/ PinModeAnyPin

SpecAllPins == InitPowerOn /\ [][NextAllPins]_vars

----------------------------------------------------------------------------
(* Runs in which the client only builds pins *)

NextPinNew ==
    \/ PinNew

SpecPinNew == Init /\ [][NextPinNew]_vars

----------------------------------------------------------------------------
(* Runs of successful calls on a single handle, without reset, the handle  *)
(* being built with its direction word equal to the chip's IODIR registers *)

NextModes ==
    \/ Construct(1) /\ last'.res = "Ok"
    \/ PinModeAnyPin /\ last'.res = "Ok"
    \/ Output(1) /\ last'.res = "Ok"
    \/ Input(1) /\ last'.res = "Ok"
    \/ PullUp(1) /\ last'.res = "Ok"
    \/ CurrentVal(1) /\ last'.res = "Ok"
    \/ ConfigSystemInterrupt(1) /\ last'.res = "Ok"

SpecModes == InitPowerOn /\ [][NextModes]_vars

----------------------------------------------------------------------------
(* Runs of a single handle made only of successful new,                    *)
(* config_system_interrupt and reset calls                                 *)

NextMirror ==
    \/ Construct(1) /\ last'.res = "Ok"
    \/ ConfigSystemInterrupt(1) /\ last'.res = "Ok"
    \/ Reset(1) /\ last'.res = "Ok"

SpecMirror == Init /\ [][NextMirror]_vars

----------------------------------------------------------------------------
(* Vocabulary of the properties *)

\* the pin of the most recent call
LastPin == last.pin[1]

\* the cache of the handle of the most recent call
LastDirection == direction[last.h]
LastMirrored  == mirrored[last.h]

\* the direction word held by the chip
HardwareDirection == regs[IODIRA] + 256 * regs[IODIRB]

\* registers of each bank
BankRegisters(bank) ==
    IF bank = "A"
    THEN {IODIRA, GPINTENA, DEFVALA, INTCONA, GPPUA, INTFA, INTCAPA, GPIOA, OLATA}
    ELSE {IODIRB, GPINTENB, DEFVALB, INTCONB, GPPUB, INTFB, INTCAPB, GPIOB, OLATB}

\* the bus operations of a trace
BusOps(t) == {i \in 1..Len(t) : t[i].op \in {"read", "write"}}
Reads(t)  == {i \in 1..Len(t) : t[i].op = "read"}
Writes(t) == {i \in 1..Len(t) : t[i].op = "write"}

\* index of the highest set bit of a non-zero byte
HighestBit(x) == CHOOSE k \in 0..7 : Bit(x, k) = 1 /\ \A j \in (k + 1)..7 : Bit(x, j) = 0

----------------------------------------------------------------------------
(* C1 *)

\* C1: after a successful new followed by successful pin_mode and reset
\* calls, the low byte of the cached direction word equals IODIRA and its
\* high byte equals IODIRB.
C1_CacheMirrorsIODIR ==
    \A h \in Handles :
       alive[h] => /\ direction[h] % 256 = regs[IODIRA]
                   /\ direction[h] \div 256 = regs[IODIRB]

(* C2 *)

\* C2: right after new returns successfully the cached direction word is
\* 0xFFFF, whatever IODIRA and IODIRB held before.
C2_FreshDirectionAllInput ==
    (last.op = "new" /\ last.res = "Ok") => LastDirection = 65535

(* C3 *)

\* C3: output returns WrongMode exactly when pin.mode(direction) is Output,
\* and a rejected call issues no bus operation.
C3_OutputGuard ==
    last.op = "output" =>
        /\ (last.res = "WrongMode") <=> (mode(LastPin, LastDirection) = "Output")
        /\ last.res = "WrongMode" => last.trace = << >>

C3_Witness ==
    /\ last.op = "output"
    /\ last.res = "WrongMode"
    /\ mode(LastPin, LastDirection) = "Output"
    /\ last.trace = << >>

(* C4 *)

\* C4: input returns WrongMode, with no bus operation, whenever
\* pin.mode(direction) is not Input; when it is Input the call issues a
\* single read of the bank's GPIO register and returns the pin's bit.
C4_InputGuard ==
    last.op = "input" =>
        LET gpio == IF LastPin.bank = "A" THEN GPIOA ELSE GPIOB
        IN /\ mode(LastPin, LastDirection) # "Input" =>
                  last.res = "WrongMode" /\ last.trace = << >>
           /\ mode(LastPin, LastDirection) = "Input" =>
                  /\ Len(last.trace) = 1
                  /\ last.trace[1].op = "read"
                  /\ last.trace[1].reg = gpio
                  /\ last.trace[1].ok =>
                        /\ last.res = "Ok"
                        /\ last.val = "High" <=> Bit(regs[gpio], LastPin.pin) = 1

(* C5 *)

\* C5: config_pin_interrupt returns WrongMode, with no bus operation,
\* exactly when pin.mode(direction) is Input; otherwise it goes on to the
\* register accesses.
C5_ConfigPinGuard ==
    last.op = "config_pin_interrupt" =>
        /\ (last.res = "WrongMode") <=> (mode(LastPin, LastDirection) = "Input")
        /\ last.res = "WrongMode" => last.trace = << >>
        /\ last.res # "WrongMode" => last.trace # << >>

C5_Witness ==
    /\ last.op = "config_pin_interrupt"
    /\ last.res = "WrongMode"
    /\ mode(LastPin, LastDirection) = "Input"
    /\ last.trace = << >>

(* C6 *)

\* C6: a successful pin_mode(pin, m) made while the cache equals the
\* hardware direction issues one read and one write, both of the IODIR
\* register of the pin's bank, and returns and caches a word whose bit
\* pin.orig is 1 iff m is Input and whose other fifteen bits are unchanged.
C6_PinModeStep ==
    (/\ last'.op = "pin_mode"
     /\ last'.res = "Ok"
     /\ direction[last'.h] = HardwareDirection)
    => LET pin   == last'.pin[1]
           iodir == IF pin.bank = "A" THEN IODIRA ELSE IODIRB
       IN /\ Len(last'.trace) = 2
          /\ last'.trace[1].op = "read" /\ last'.trace[1].reg = iodir
          /\ last'.trace[2].op = "write" /\ last'.trace[2].reg = iodir
          /\ last'.val = direction'[last'.h]
          /\ \A i \in 0..15 :
                Bit(direction'[last'.h], i) =
                    IF i = pin.orig
                    THEN (IF last'.args[1] = "Input" THEN 1 ELSE 0)
                    ELSE Bit(direction[last'.h], i)

C6_PinMode == [][C6_PinModeStep]_vars

\* pin 3 set to Output from 0xFFFF gives 0xFFF7
C6_Witness ==
    /\ last.op = "pin_mode"
    /\ last.res = "Ok"
    /\ LastPin.orig = 3
    /\ last.args = <<"Output">>
    /\ LastDirection = 65527
    /\ HardwareDirection = 65527

(* C7 *)

\* C7: pin_mode, pull_up and config_pin_interrupt write only registers of
\* the pin's bank, and each written byte differs from what the register
\* held before the call at most in bit pin.pin.
C7_SingleBitStep ==
    last'.op \in {"pin_mode", "pull_up", "config_pin_interrupt"} =>
        LET pin == last'.pin[1]
            t   == last'.trace
        IN \A i \in Writes(t) :
              /\ t[i].reg \in BankRegisters(pin.bank)
              /\ \A k \in 0..7 : k # pin.pin => Bit(t[i].val, k) = Bit(regs[t[i].reg], k)

C7_SingleBit == [][C7_SingleBitStep]_vars

(* C8 *)

\* C8: pull_up reads and writes only the GPPU register of the pin's bank;
\* after a successful call on a bank-B pin, bit pin.pin of GPPUB equals the
\* requested state and GPPUA is unchanged.
C8_PullUpStep ==
    last'.op = "pull_up" =>
        LET pin  == last'.pin[1]
            t    == last'.trace
            gppu == IF pin.bank = "A" THEN GPPUA ELSE GPPUB
        IN /\ \A i \in BusOps(t) : t[i].reg = gppu
           /\ (last'.res = "Ok" /\ pin.bank = "B") =>
                 /\ Bit(regs'[GPPUB], pin.pin) = (IF last'.args[1] = "High" THEN 1 ELSE 0)
                 /\ regs'[GPPUA] = regs[GPPUA]

C8_PullUpBank == [][C8_PullUpStep]_vars

(* C9 *)

\* C9: with mirroring off read_interrupt(X) is read_interrupt_register(X).
\* For a non-zero INTF_X it returns the bank-X pin whose bit is the highest
\* set bit k of INTF_X (number k for A, k + 8 for B) with High iff bit k of
\* INTCAP_X is set; for a zero INTF_X it returns None without reading
\* INTCAP_X.
C9_InterruptPin ==
    (/\ last.op = "read_interrupt"
     /\ LastMirrored = "Off"
     /\ last.res = "Ok")
    => LET X    == last.args[1]
           intf == regs[IF X = "A" THEN INTFA ELSE INTFB]
           cap  == regs[IF X = "A" THEN INTCAPA ELSE INTCAPB]
           k    == HighestBit(intf)
       IN IF intf = 0
          THEN /\ last.val = None
               /\ \A i \in BusOps(last.trace) : last.trace[i].reg \notin {INTCAPA, INTCAPB}
          ELSE /\ last.val # None
               /\ Pin_eq(last.val[1][1], Pin_new(IF X = "A" THEN k ELSE k + 8)[1])
               /\ last.val[1][1].bank = X
               /\ last.val[1][2] = "High" <=> Bit(cap, k) = 1

(* C10 *)

\* C10: with mirroring on, read_interrupt checks bank A first and bank B
\* only if bank A reported nothing; a bus failure while checking bank B
\* gives Ok(None), a bus failure while checking bank A is returned.  With
\* mirroring off only the requested bank's registers are read and any bus
\* failure is returned.
C10_ReadInterrupt ==
    last.op = "read_interrupt" =>
        LET t     == last.trace
            regsA == {INTFA, INTCAPA}
            regsB == {INTFB, INTCAPB}
            port  == IF last.args[1] = "A" THEN regsA ELSE regsB
        IN IF LastMirrored = "On"
           THEN /\ t[1].reg = INTFA
                /\ (\E i \in BusOps(t) : t[i].reg \in regsB)
                      <=> (t[1].ok /\ t[1].val = 0)
                /\ \A i \in BusOps(t), j \in BusOps(t) :
                      (t[i].reg \in regsA /\ t[j].reg \in regsB) => i < j
                /\ (\E i \in BusOps(t) : t[i].reg \in regsB /\ ~t[i].ok)
                      => (last.res = "Ok" /\ last.val = None)
                /\ (\E i \in BusOps(t) : t[i].reg \in regsA /\ ~t[i].ok)
                      => last.res = "I2C"
           ELSE /\ \A i \in BusOps(t) : t[i].reg \in port
                /\ (\E i \in BusOps(t) : ~t[i].ok) => last.res = "I2C"

\* mirroring on, bank A empty, the bank B check fails, the call succeeds
C10_Witness ==
    /\ last.op = "read_interrupt"
    /\ LastMirrored = "On"
    /\ \E i \in BusOps(last.trace) :
          last.trace[i].reg \in {INTFB, INTCAPB} /\ ~last.trace[i].ok
    /\ last.res = "Ok"
    /\ last.val = None


(* C11 *)

\* C11: when INTFA and INTFB read non-zero on every poll, clear_interrupts
\* makes three retry polls after the initial check, sleeping after each, and
\* only after the third reads GPIOA and GPIOB once each and returns
\* InterruptsForcedClear.
C11_ThreeRetryPolls ==
    (/\ last.op = "clear_interrupts"
     /\ last.res # "Pending"
     /\ regs[INTFA] # 0 /\ regs[INTFB] # 0
     /\ \A i \in BusOps(last.trace) : last.trace[i].ok)
    => LET t     == last.trace
           polls == {i \in Reads(t) : t[i].reg = INTFA /\ i > 1}
           gpioA == {i \in Reads(t) : t[i].reg = GPIOA}
           gpioB == {i \in Reads(t) : t[i].reg = GPIOB}
       IN /\ last.res = "InterruptsForcedClear"
          /\ Cardinality(polls) = 3
          /\ Cardinality({i \in 1..Len(t) : t[i].op = "sleep"}) = 3
          /\ Cardinality(gpioA) = 1 /\ Cardinality(gpioB) = 1
          /\ \A g \in gpioA \cup gpioB : \A i \in polls : i < g

(* C12 *)

\* C12 as claimed: a reset without a bus failure issues exactly 14 register
\* writes followed by exactly 2 register reads (GPIOA then GPIOB), the two
\* IODIR writes of 0xFF coming before every other write.
C12_FourteenWrites ==
    (last.op = "reset" /\ last.res = "Ok")
    => LET t == last.trace
       IN /\ Len(t) = 16
          /\ \A i \in 1..14 : t[i].op = "write"
          /\ t[15].op = "read" /\ t[15].reg = GPIOA
          /\ t[16].op = "read" /\ t[16].reg = GPIOB
          /\ t[1].reg = IODIRA /\ t[1].val = 255
          /\ t[2].reg = IODIRB /\ t[2].val = 255

\* C12 amended: a reset without a bus failure issues exactly 13 register
\* writes followed by exactly 2 register reads (GPIOA then GPIOB), the two
\* IODIR writes of 0xFF coming before every other write.
C12_ThirteenWrites ==
    (last.op = "reset" /\ last.res = "Ok")
    => LET t == last.trace
       IN /\ Len(t) = 15
          /\ \A i \in 1..13 : t[i].op = "write" /\ t[i].ok
          /\ t[14].op = "read" /\ t[14].reg = GPIOA /\ t[14].ok
          /\ t[15].op = "read" /\ t[15].reg = GPIOB /\ t[15].ok
          /\ {t[1].reg, t[2].reg} = {IODIRA, IODIRB}
          /\ t[1].val = 255 /\ t[2].val = 255
          /\ \A i \in 3..13 : t[i].reg \notin {IODIRA, IODIRB}

C12_Witness ==
    /\ last.op = "reset"
    /\ last.res = "Ok"
    /\ Cardinality(Writes(last.trace)) = 13
    /\ Cardinality(Reads(last.trace)) = 2

(* C13 *)

\* C13: if the k-th bus operation of reset fails, reset issues no further
\* bus operation and returns the I2C error; the registers written by
\* operations 1..k-1 hold their reset values (0xFF for IODIR, 0x00 for the
\* others) and every other register is as it was before the call.
C13_ResetAbortStep ==
    (/\ last'.op = "reset"
     /\ \E i \in BusOps(last'.trace) : ~last'.trace[i].ok)
    => LET t == last'.trace
           k == Len(t)
           written == {t[i].reg : i \in {j \in 1..(k - 1) : t[j].op = "write"}}
       IN /\ ~t[k].ok
          /\ \A i \in 1..(k - 1) : t[i].ok
          /\ last'.res = "I2C"
          /\ \A r \in Registers :
                regs'[r] = IF r \in written
                           THEN (IF r \in {IODIRA, IODIRB} THEN 255 ELSE 0)
                           ELSE regs[r]

C13_ResetAbort == [][C13_ResetAbortStep]_vars

\* the fifth write of a reset fails
C13_Witness ==
    /\ last.op = "reset"
    /\ last.res = "I2C"
    /\ Len(last.trace) = 5
    /\ ~last.trace[5].ok
    /\ last.trace[5].op = "write"


(* C14 *)

\* C14: for every pin and every direction word, pin.mode(word) is Input
\* iff bit pin.orig of the word is 1, and Output iff that bit is 0.
C14_ModeReadsBit ==
    \A h \in Handles :
       alive[h] =>
          \A pin \in AllPins :
             /\ mode(pin, direction[h]) = "Input" <=> Bit(direction[h], pin.orig) = 1
             /\ mode(pin, direction[h]) = "Output" <=> Bit(direction[h], pin.orig) = 0

(* C15 *)

\* C15: Pin::new(n) succeeds for n in 0..15 with bank A iff n < 8,
\* pin = n mod 8 and shift 8 iff bank B, and the pin is unequal (PartialEq)
\* to the pin of every other number; for n in 16..255 it returns None.
C15_PinNew ==
    last.op = "Pin_new" =>
        LET n == last.args[1]
            p == last.pin
        IN IF n < 16
           THEN /\ p # None
                /\ p[1].bank = "A" <=> n < 8
                /\ p[1].bank \in {"A", "B"}
                /\ p[1].pin = n % 8
                /\ p[1].orig = n
                /\ p[1].shift = 8 <=> p[1].bank = "B"
                /\ \A j \in 0..15 : j # n => ~Pin_eq(p[1], Pin_new(j)[1])
           ELSE p = None

C15_Witness ==
    /\ last.op = "Pin_new"
    /\ last.args = <<10>>
    /\ last.pin = Some([pin |-> 2, orig |-> 10, shift |-> 8, bank |-> "B"])


(* C16 *)

\* C16: an output call that passes its guard first reads OLAT of the pin's
\* bank.  If that read succeeds the call issues no GPIO read and exactly one
\* GPIO write, of the OLAT byte with only the pin's bit set to the requested
\* state.  If it fails the failure is not returned: the call issues one
\* GPIO read followed by one GPIO write.
C16_OutputBus ==
    (last.op = "output" /\ last.res # "WrongMode")
    => LET t    == last.trace
           pin  == LastPin
           olat == IF pin.bank = "A" THEN OLATA ELSE OLATB
           gpio == IF pin.bank = "A" THEN GPIOA ELSE GPIOB
           want == IF last.args[1] = "High" THEN 1 ELSE 0
           Changed(written, old) ==
               \A k \in 0..7 :
                  Bit(written, k) = IF k = pin.pin THEN want ELSE Bit(old, k)
       IN /\ Len(t) >= 2
          /\ t[1].op = "read" /\ t[1].reg = olat
          /\ IF t[1].ok
             THEN /\ Len(t) = 2
                  /\ t[2].op = "write" /\ t[2].reg = gpio
                  /\ t[1].val = regs[olat]
                  /\ Changed(t[2].val, t[1].val)
                  /\ last.res = IF t[2].ok THEN "Ok" ELSE "I2C"
             ELSE /\ t[2].op = "read" /\ t[2].reg = gpio
                  /\ IF t[2].ok
                     THEN /\ Len(t) = 3
                          /\ t[3].op = "write" /\ t[3].reg = gpio
                          /\ Changed(t[3].val, t[2].val)
                          /\ last.res = IF t[3].ok THEN "Ok" ELSE "I2C"
                     ELSE Len(t) = 2 /\ last.res = "I2C"

\* the OLAT read fails, the GPIO read and write follow, the call succeeds
C16_Witness ==
    /\ last.op = "output"
    /\ last.res = "Ok"
    /\ Len(last.trace) = 3
    /\ ~last.trace[1].ok
    /\ last.trace[2].op = "read"
    /\ last.trace[3].op = "write"

(* C17 *)

\* C17: a config_pin_interrupt call that passes its guard reads and writes
\* GPINTEN, then INTCON, then DEFVAL of the pin's bank (DEFVAL bit Low when
\* defval is None) and stops at the first failed bus operation with the I2C
\* error: the registers already written stay modified, the later ones are
\* not touched.
C17_ConfigPinOrderStep ==
    (last'.op = "config_pin_interrupt" /\ last'.res # "WrongMode")
    => LET t    == last'.trace
           k    == Len(t)
           pin  == last'.pin[1]
           A    == pin.bank = "A"
           seq  == <<IF A THEN GPINTENA ELSE GPINTENB,
                     IF A THEN INTCONA ELSE INTCONB,
                     IF A THEN DEFVALA ELSE DEFVALB>>
           defv == last'.args[3]
           want == <<IF last'.args[1] = "On" THEN 1 ELSE 0,
                     IF last'.args[2] = "Default" THEN 1 ELSE 0,
                     IF defv # << >> /\ defv = <<"High">> THEN 1 ELSE 0>>
       IN /\ k \in 1..6
          /\ \A i \in 1..k :
                /\ t[i].reg = seq[(i + 1) \div 2]
                /\ t[i].op = IF i % 2 = 1 THEN "read" ELSE "write"
          /\ \A i \in 1..(k - 1) : t[i].ok
          /\ IF t[k].ok THEN k = 6 /\ last'.res = "Ok" ELSE last'.res = "I2C"
          /\ \A j \in 1..3 :
                IF 2 * j <= k /\ t[2 * j].ok
                THEN \A b \in 0..7 :
                        Bit(regs'[seq[j]], b) =
                            IF b = pin.pin THEN want[j] ELSE Bit(regs[seq[j]], b)
                ELSE regs'[seq[j]] = regs[seq[j]]
          /\ \A r \in Registers : r \notin {seq[1], seq[2], seq[3]} => regs'[r] = regs[r]

C17_ConfigPinOrder == [][C17_ConfigPinOrderStep]_vars

\* the INTCON write fails after GPINTEN was enabled
C17_Witness ==
    /\ last.op = "config_pin_interrupt"
    /\ last.res = "I2C"
    /\ last.args[1] = "On"
    /\ Len(last.trace) = 4
    /\ ~last.trace[4].ok
    /\ Bit(regs[IF LastPin.bank = "A" THEN GPINTENA ELSE GPINTENB], LastPin.pin) = 1

(* C18 *)

\* C18: config_system_interrupt(mirror, intpol) reads IOCON once and, the
\* read having succeeded, writes IOCON once; the written byte differs from
\* the read byte at most in bit 6 (= mirror) and bit 1 (= intpol).  The
\* cached mirror flag becomes mirror if both operations succeed and is
\* unchanged if either fails.
C18_ConfigSystemStep ==
    last'.op = "config_system_interrupt"
    => LET t  == last'.trace
           m  == IF last'.args[1] = "On" THEN 1 ELSE 0
           p  == IF last'.args[2] = "High" THEN 1 ELSE 0
       IN /\ Len(t) >= 1
          /\ t[1].op = "read" /\ t[1].reg = IOCON
          /\ IF t[1].ok
             THEN /\ Len(t) = 2
                  /\ t[2].op = "write" /\ t[2].reg = IOCON
                  /\ t[1].val = regs[IOCON]
                  /\ \A k \in 0..7 :
                        Bit(t[2].val, k) = IF k = 6 THEN m
                                           ELSE IF k = 1 THEN p
                                           ELSE Bit(t[1].val, k)
                  /\ last'.res = IF t[2].ok THEN "Ok" ELSE "I2C"
             ELSE Len(t) = 1 /\ last'.res = "I2C"
          /\ mirrored'[last'.h] = IF last'.res = "Ok" THEN last'.args[1] ELSE mirrored[last'.h]

C18_ConfigSystem == [][C18_ConfigSystemStep]_vars

\* the write of IOCON fails and the flag stays Off although On was asked for
C18_Witness ==
    /\ last.op = "config_system_interrupt"
    /\ last.args[1] = "On"
    /\ last.res = "I2C"
    /\ Len(last.trace) = 2
    /\ ~last.trace[2].ok
    /\ LastMirrored = "Off"


(* C19 *)

\* C19: in a run of successful calls without a reset, on a device built with
\* its direction word equal to the chip's IODIR registers: a pin whose
\* latest pin_mode set it to Output is accepted by output and rejected by
\* input with WrongMode; a pin whose latest pin_mode set it to Input is
\* accepted by input and rejected by output with WrongMode.
C19_ModeGuards ==
    \A h \in Handles, p \in AllPins :
       alive[h] =>
       LET out == output(NewBus(regs, {}), direction[h], p, "High").res.kind
           low == output(NewBus(regs, {}), direction[h], p, "Low").res.kind
           inp == input(NewBus(regs, {}), direction[h], p).res.kind
       IN /\ set_mode[h][p.orig] = "Output"
             => out # "WrongMode" /\ low # "WrongMode" /\ inp = "WrongMode"
          /\ set_mode[h][p.orig] = "Input"
             => inp # "WrongMode" /\ out = "WrongMode" /\ low = "WrongMode"

\* output is accepted on a pin set to Output while another pin of the same
\* bank is in the other mode
C19_Witness ==
    /\ last.op = "output"
    /\ last.res = "Ok"
    /\ set_mode[last.h][LastPin.orig] = "Output"
    /\ LastDirection = HardwareDirection
    /\ \E q \in AllPins : /\ q.bank = LastPin.bank
                          /\ q.orig # LastPin.orig
                          /\ mode(q, LastDirection) # mode(LastPin, LastDirection)

(* C20 *)

\* C20: in every state reached by successful new, config_system_interrupt
\* and reset calls, the cached mirror flag is On exactly when bit 6 of the
\* chip's IOCON register is set.
C20_MirrorAgrees ==
    \A h \in Handles :
       alive[h] => (mirrored[h] = "On" <=> Bit(regs[IOCON], 6) = 1)

====
